---- MODULE Spec2Model ----
(***************************************************************************)
(* Blockchain-backed FUSE storage driver (myfuse): the hash-chained        *)
(* ledger (blockchain.py), the content store client (ipfs_client.py) and   *)
(* the filesystem adapter (main.py).                                       *)
(*                                                                         *)
(* Strings are sequences of one-character strings.  SHA-256 is modelled as *)
(* a collision-free function: the digest of s is a run of leading "0"      *)
(* characters, whose length is a pseudo-random function of s, followed by  *)
(* s between brackets.                                                     *)
(***************************************************************************)
EXTENDS Integers, Sequences, FiniteSets, TLC

\* ------------------------------------------------------------------ bounds
MaxChain == 3       \* longest chain the model builds (genesis included)
MaxLen == 3         \* longest data buffer passed to write
MaxFaults == 1      \* number of failed saves and loads of the ledger file
MaxTamper == 1      \* number of changes made behind the program's back
CHUNK_SIZE == 2     \* config.CHUNK_SIZE, scaled down
MAX_NONCE == 2      \* config.MAX_NONCE, scaled down
HexLen == 4         \* length of a hex digest literal ("0" * 64), scaled down

\* ------------------------------------------------------- program constants
DIFFICULTY == 3

\* ----------------------------------------------------------------- strings
DigitChars == <<"0", "1", "2", "3", "4", "5", "6", "7", "8", "9">>

Alphabet ==
  DigitChars \o <<"a", "b", "x", "f", "g", "Q", "m", "[", "]",
                  "G", "E", "N", "S", "I">>

CodeOf == [c \in {Alphabet[i] : i \in 1..Len(Alphabet)} |->
             CHOOSE i \in 1..Len(Alphabet) : Alphabet[i] = c]

RECURSIVE Str(_)
\* str(n) for a non-negative integer: its decimal digits
Str(n) ==
  IF n < 10 THEN <<DigitChars[n + 1]>>
  ELSE Str(n \div 10) \o <<DigitChars[(n % 10) + 1]>>

Repeat(c, n) == [i \in 1..n |-> c]

\* s.startswith(p)
StartsWith(s, p) ==
  /\ Len(s) >= Len(p)
  /\ \A i \in 1..Len(p) : s[i] = p[i]

\* data[lo:hi] with Python's clamping (0-based, hi exclusive)
Slice(s, lo, hi) ==
  LET l == IF lo > Len(s) THEN Len(s) ELSE lo
      h == IF hi > Len(s) THEN Len(s) ELSE hi
  IN  IF h <= l THEN <<>> ELSE SubSeq(s, l + 1, h)

\* the bits of the digest of s that decide its leading zeros: a checksum of
\* the length of s and of the characters at a few positions
Mix(s) ==
  LET at(i) == IF i \in 1..Len(s) THEN CodeOf[s[i]] ELSE 0
  IN  (Len(s) + at(1) + 2 * at(2) + 3 * at(3) + 5 * at(4) + 7 * at(6)
       + 11 * at(Len(s)) + 13 * at(Len(s) - 2)) % 251

\* hashlib.sha256(s).hexdigest(); digest is a function, so that s is
\* evaluated once however many of its characters are looked at
Sha256(s) ==
  LET digest[v \in {s}] ==
        Repeat("0", Mix(v) % (DIFFICULTY + 2)) \o <<"[">> \o v \o <<"]">>
  IN  digest[s]

ZeroHash == Repeat("0", HexLen)      \* "0" * 64
GENESIS == <<"G", "E", "N", "E", "S", "I", "S">>

\* ------------------------------------------------------------------ inputs
Filenames == {<<"f">>, <<"g">>}
\* what datetime.datetime.now().isoformat() returns
Timestamps == {<<"2">>}

\* the buffers passed to write: the prefixes of "ababa..."
Pattern(i) == IF i % 2 = 1 THEN "a" ELSE "b"
Datas == {[i \in 1..n |-> Pattern(i)] : n \in 0..MaxLen}

\* ------------------------------------------------------------------ blocks
Block(index, timestamp, filename, file_size, chunk_hash, ipfs_hash, previous_hash, nonce, hash) ==
  [index |-> index, timestamp |-> timestamp, filename |-> filename,
   file_size |-> file_size, chunk_hash |-> chunk_hash,
   ipfs_hash |-> ipfs_hash, previous_hash |-> previous_hash,
   nonce |-> nonce, hash |-> hash]

\* calculate_hash leaving a field out of the hashed string
calculate_hash_without_address(block) ==
  Sha256(Str(block.index) \o block.timestamp \o block.filename \o
         Str(block.file_size) \o block.chunk_hash \o
         block.previous_hash \o Str(block.nonce))

calculate_hash(block) ==
  Sha256(Str(block.index) \o block.timestamp \o block.filename \o
         Str(block.file_size) \o block.chunk_hash \o block.ipfs_hash \o
         block.previous_hash \o Str(block.nonce))

Target == Repeat("0", DIFFICULTY)

Qualifies(block, nonce) ==
  StartsWith(calculate_hash([block EXCEPT !.nonce = nonce]), Target)

\* proof_of_work returning the last nonce it tried when none qualifies
proof_of_work_last_tried(block) ==
  IF \E n \in 0..(MAX_NONCE - 1) : Qualifies(block, n)
  THEN CHOOSE n \in 0..(MAX_NONCE - 1) :
         /\ Qualifies(block, n)
         /\ \A m \in 0..(n - 1) : ~Qualifies(block, m)
  ELSE MAX_NONCE - 1

RECURSIVE mine_from(_, _)
\* the loop of proof_of_work from nonce on: for nonce in range(MAX_NONCE),
\* set the nonce, hash the block, return the nonce if the hash starts
\* with the target; 0 after the loop. evals counts the calls of
\* calculate_hash
mine_from(block, nonce) ==
  IF nonce >= MAX_NONCE THEN [nonce |-> 0, evals |-> nonce, found |-> FALSE]
  ELSE LET hash_result == calculate_hash([block EXCEPT !.nonce = nonce])
       IN  IF StartsWith(hash_result, Target)
           THEN [nonce |-> nonce, evals |-> nonce + 1, found |-> TRUE]
           ELSE mine_from(block, nonce + 1)

\* proof_of_work returning the greatest qualifying nonce
proof_of_work_greatest(block) ==
  IF \E n \in 0..(MAX_NONCE - 1) : Qualifies(block, n)
  THEN CHOOSE n \in 0..(MAX_NONCE - 1) :
         /\ Qualifies(block, n)
         /\ \A m \in (n + 1)..(MAX_NONCE - 1) : ~Qualifies(block, m)
  ELSE 0

\* the nonce proof_of_work returns: the first qualifying one, else 0
proof_of_work(block) == mine_from(block, 0).nonce

MiningExhausted(block) == \A n \in 0..(MAX_NONCE - 1) : ~Qualifies(block, n)

\* create_genesis_block leaving the hash of the genesis block unset
genesis_block_unhashed(ts) ==
  Block(0, ts, GENESIS, 0, ZeroHash, <<>>, ZeroHash, 0, <<>>)

genesis_block(ts) ==
  LET g == Block(0, ts, GENESIS, 0, ZeroHash, <<>>, ZeroHash, 0, <<>>)
  IN  [g EXCEPT !.hash = calculate_hash(g)]

\* get_latest_block returning the oldest block instead of the newest
get_first_block(c) == c[1]

get_latest_block(c) == c[Len(c)]

\* new_block numbering the blocks from 1: index = len(chain) + 1
new_block_numbered_from_one(c, ts, filename, file_size, chunk_hash, ipfs_hash) ==
  LET b == Block(Len(c) + 1, ts, filename, file_size, chunk_hash, ipfs_hash,
                 get_latest_block(c).hash, 0, <<>>)
      m == [b EXCEPT !.nonce = proof_of_work(b)]
  IN  [m EXCEPT !.hash = calculate_hash(m)]

\* the block add_block builds, mines and seals on top of chain c
new_block(c, ts, filename, file_size, chunk_hash, ipfs_hash) ==
  LET b == Block(Len(c), ts, filename, file_size, chunk_hash, ipfs_hash,
                 get_latest_block(c).hash, 0, <<>>)
      m == [b EXCEPT !.nonce = proof_of_work(b)]
  IN  [m EXCEPT !.hash = calculate_hash(m)]

\* get_file_blocks keeping only the newest block of the file
get_file_blocks_newest(c, filename) ==
  LET bs == SelectSeq(c, LAMBDA b : b.filename = filename)
  IN  IF bs = <<>> THEN <<>> ELSE <<bs[Len(bs)]>>

get_file_blocks(c, filename) ==
  SelectSeq(c, LAMBDA b : b.filename = filename)

RECURSIVE validate_unlinked(_, _)
\* validate_chain's loop without the check of the link to the previous block
validate_unlinked(c, i) ==
  IF i > Len(c) THEN "valid"
  ELSE IF c[i].hash # calculate_hash(c[i]) THEN "Invalid hash"
  ELSE IF ~StartsWith(c[i].hash, Target) THEN "Invalid proof of work"
  ELSE validate_unlinked(c, i + 1)

RECURSIVE validate_from(_, _)
\* the loop of validate_chain from position i on: the error it logs, if any
validate_from(c, i) ==
  IF i > Len(c) THEN "valid"
  ELSE IF c[i].hash # calculate_hash(c[i]) THEN "Invalid hash"
  ELSE IF c[i].previous_hash # c[i - 1].hash THEN "Invalid previous hash"
  ELSE IF ~StartsWith(c[i].hash, Target) THEN "Invalid proof of work"
  ELSE validate_from(c, i + 1)

\* for i in range(1, len(self.chain)): position 2 is the first block checked
validate_chain(c) == validate_from(c, 2) = "valid"

RECURSIVE detect_in(_)
detect_in(bs) ==
  IF bs = <<>> THEN <<>>
  ELSE (IF Head(bs).hash # calculate_hash(Head(bs))
        THEN <<Head(bs).index>> ELSE <<>>) \o detect_in(Tail(bs))

\* detect_tampering checking the blocks of every file, not those of one
detect_tampering_any_file(c, filename) == detect_in(c)

\* detect_tampering flagging also a block whose previous_hash is not the
\* hash of the block before it
detect_tampering_linked(c, filename) ==
  LET P == {i \in 1..Len(c) :
              /\ c[i].filename = filename
              /\ \/ c[i].hash # calculate_hash(c[i])
                 \/ i > 1 /\ c[i].previous_hash # c[i - 1].hash}
      at(k) == CHOOSE i \in P : Cardinality({j \in P : j < i}) = k - 1
  IN  [k \in 1..Cardinality(P) |-> c[at(k)].index]

detect_tampering(c, filename) == detect_in(get_file_blocks(c, filename))

\* ------------------------------------------------------------ content store
\* the address add_bytes returns: derived from the content
Cid(chunk) == <<"Q", "m">> \o chunk

None == <<"N">>       \* Python's None, where a string or bytes is expected

\* ipfs_client.download_chunk: None when the fetch fails
download_chunk(st, ipfs_hash, fails) ==
  IF fails \/ ipfs_hash \notin DOMAIN st THEN None ELSE st[ipfs_hash]

\* verify_chunk accepting whatever the store returned
verify_chunk_always(chunk_data, expected_hash) == chunk_data = chunk_data

verify_chunk(chunk_data, expected_hash) == Sha256(chunk_data) = expected_hash

\* ipfs_client.upload_chunk, when it succeeds: the store afterwards
upload_chunk(st, chunk) ==
  [a \in DOMAIN st \cup {Cid(chunk)} |->
     IF a = Cid(chunk) THEN chunk ELSE st[a]]

\* ------------------------------------------------------------- persistence
SaveOutcomes == {"saved", "unopened", "partial"}

\* the fields of a block that hold an int
IntFields == {"index", "file_size", "nonce"}

\* what json.dump writes for an int and for a str
JsonNumber(n) == [type |-> "number", text |-> Str(n)]
JsonString(str) == [type |-> "string", text |-> str]

RECURSIVE ParseInt(_)
\* what json.load makes of the digits of a number
ParseInt(digits) ==
  IF digits = <<>> THEN 0
  ELSE 10 * ParseInt(SubSeq(digits, 1, Len(digits) - 1))
       + CodeOf[digits[Len(digits)]] - 1

\* Block.to_dict, asdict(self), as json.dump writes it
to_dict(block) ==
  [k \in DOMAIN block |->
     IF k \in IntFields THEN JsonNumber(block[k]) ELSE JsonString(block[k])]

\* from_dict leaving the nonce at the default of the dataclass
from_dict_default_nonce(data) ==
  [k \in DOMAIN data |->
     IF k = "nonce" THEN 0
     ELSE IF data[k].type = "number" THEN ParseInt(data[k].text)
     ELSE data[k].text]

\* Block.from_dict, cls(**data), on what json.load returns
from_dict(data) ==
  [k \in DOMAIN data |->
     IF data[k].type = "number" THEN ParseInt(data[k].text)
     ELSE data[k].text]

\* no ledger file
NoLedger == [kind |-> "absent", blocks |-> <<>>, length |-> 0]

\* save_blockchain: a full rewrite of {'chain': ..., 'length': ...}; an
\* exception is logged and swallowed, leaving the old file (open failed) or a
\* truncated one (dump failed)
save_blockchain(led, c, sv) ==
  CASE sv = "saved" ->
         [kind |-> "json", blocks |-> [i \in 1..Len(c) |-> to_dict(c[i])],
          length |-> Len(c)]
    [] sv = "unopened" -> led
    [] sv = "partial" -> [kind |-> "garbage", blocks |-> <<>>, length |-> 0]

\* the load raises: the file is not a JSON document or cannot be read
LoadRaises(led, loadFails) ==
  led.kind = "garbage" \/ (led.kind = "json" /\ loadFails)

\* load_blockchain taking the blocks of a file even when reading it raised
load_blockchain_lenient(led, loadFails) ==
  [i \in 1..Len(led.blocks) |-> from_dict(led.blocks[i])]

\* load_blockchain: the chain after loading, from blockchain_data['chain']
load_blockchain(led, loadFails) ==
  IF led.kind = "json" /\ ~loadFails
  THEN [i \in 1..Len(led.blocks) |-> from_dict(led.blocks[i])]
  ELSE <<>>

\* ---------------------------------------------------------------- the state
VARIABLES
  chain,      \* Blockchain.chain of the running process
  ledger,     \* the file BLOCKCHAIN_FILE
  store,      \* the content store: address -> bytes
  files,      \* BlockchainFUSE.files: filename -> size
  faults,     \* failed saves and loads so far
  tampers,    \* changes made behind the program's back so far
  ret,        \* the last call and what it returned or raised
  peer        \* a second process that has imported blockchain.py

vars == <<chain, ledger, store, files, faults, tampers, ret, peer>>

\* no second process is running
PeerDown == [pc |-> "down", chain |-> <<>>]

NoRet ==
  [op |-> "init", f |-> <<>>, data |-> <<>>, offset |-> 0, size |-> 0,
   ok |-> TRUE, errno |-> "", cause |-> "", out |-> <<>>, n |-> 0,
   idx |-> <<>>, fetches |-> 0, pos |-> 0, field |-> "", before |-> <<>>,
   saved |-> TRUE, names |-> {}]

Ret(op, f) == [NoRet EXCEPT !.op = op, !.f = f]

\* add_block writing the new block over the latest block after the genesis
add_block_over_latest(st, ts, sv, filename, file_size, chunk_hash, ipfs_hash) ==
  LET nb == new_block(st.chain, ts, filename, file_size, chunk_hash,
                      ipfs_hash)
      c2 == IF Len(st.chain) > 1
            THEN [st.chain EXCEPT ![Len(st.chain)] = nb]
            ELSE Append(st.chain, nb)
  IN  [chain |-> c2, ledger |-> save_blockchain(st.ledger, c2, sv)]

\* add_block saving the chain before it appends the new block
add_block_saving_first(st, ts, sv, filename, file_size, chunk_hash, ipfs_hash) ==
  LET nb == new_block(st.chain, ts, filename, file_size, chunk_hash,
                      ipfs_hash)
  IN  [chain |-> Append(st.chain, nb),
       ledger |-> save_blockchain(st.ledger, st.chain, sv)]

\* add_block leaving the new block out of the chain when the save fails
add_block_dropping_unsaved(st, ts, sv, filename, file_size, chunk_hash, ipfs_hash) ==
  LET nb == new_block(st.chain, ts, filename, file_size, chunk_hash,
                      ipfs_hash)
      c2 == IF sv = "saved" THEN Append(st.chain, nb) ELSE st.chain
  IN  [chain |-> c2, ledger |-> save_blockchain(st.ledger, c2, sv)]

\* Blockchain.add_block on the pair (chain, ledger)
add_block(st, ts, sv, filename, file_size, chunk_hash, ipfs_hash) ==
  LET nb == new_block(st.chain, ts, filename, file_size, chunk_hash,
                      ipfs_hash)
      c2 == Append(st.chain, nb)
  IN  [chain |-> c2, ledger |-> save_blockchain(st.ledger, c2, sv)]

\* __init__ creating a genesis block only when there was no ledger file
init_blockchain_unless_file(led, loadFails, ts, sv) ==
  IF led.kind = "absent"
  THEN [chain |-> <<genesis_block(ts)>>,
        ledger |-> save_blockchain(led, <<genesis_block(ts)>>, sv)]
  ELSE [chain |-> load_blockchain(led, loadFails), ledger |-> led]

\* Blockchain.__init__: load, then a genesis block if the chain is empty
init_blockchain(led, loadFails, ts, sv) ==
  LET c == load_blockchain(led, loadFails)
  IN  IF c = <<>>
      THEN [chain |-> <<genesis_block(ts)>>,
            ledger |-> save_blockchain(led, <<genesis_block(ts)>>, sv)]
      ELSE [chain |-> c, ledger |-> led]

Init ==
  \E ts \in Timestamps, sv \in SaveOutcomes :
    LET st == init_blockchain(NoLedger, FALSE, ts, sv)
    IN  /\ chain = st.chain
        /\ ledger = st.ledger
        /\ store = <<>>
        /\ files = <<>>
        /\ faults = IF sv = "saved" THEN 0 ELSE 1
        /\ tampers = 0
        /\ ret = [NoRet EXCEPT !.saved = (sv = "saved")]
        /\ peer = PeerDown

\* ------------------------------------------------------------- the adapter
Min(a, b) == IF a < b THEN a ELSE b

\* the chunk loop stopping before a last chunk shorter than the chunk size
split_whole_chunks(data, n) ==
  [k \in 1..(Len(data) \div n) |-> Slice(data, (k - 1) * n, k * n)]

\* the chunk loop of write: for i in range(0, len(data), CHUNK_SIZE)
split(data, n) ==
  [k \in 1..((Len(data) + n - 1) \div n) |-> Slice(data, (k - 1) * n, k * n)]

RECURSIVE join(_)
join(chunks) ==
  IF chunks = <<>> THEN <<>> ELSE Head(chunks) \o join(Tail(chunks))

Put(m, k, v) == [x \in DOMAIN m \cup {k} |-> IF x = k THEN v ELSE m[x]]

RECURSIVE write_chunks_kept(_, _, _, _, _, _)
write_chunks_kept(st, filename, chunks, k, tss, svs) ==
  IF k = 0 THEN st
  ELSE LET p == write_chunks_kept(st, filename, chunks, k - 1, tss, svs)
           a == add_block([chain |-> p.chain, ledger |-> p.ledger],
                          tss[k], svs[k], filename, Len(chunks[k]),
                          Sha256(chunks[k]), Cid(chunks[k]))
       IN  [chain |-> a.chain, ledger |-> a.ledger,
            store |-> upload_chunk(p.store, chunks[k])]

\* write's loop as a transaction: a failed upload undoes the earlier rounds
write_chunks_rolled_back(st, filename, chunks, k, tss, svs) ==
  IF k < Len(chunks) THEN st
  ELSE write_chunks_kept(st, filename, chunks, k, tss, svs)

\* write's loop adding the block of a chunk before it uploads the chunk:
\* the chunk whose upload fails has its block on the chain
write_chunks_block_first(st, filename, chunks, k, tss, svs) ==
  LET p == write_chunks_kept(st, filename, chunks, k, tss, svs)
      a == add_block([chain |-> p.chain, ledger |-> p.ledger],
                     CHOOSE ts \in Timestamps : TRUE, "saved", filename,
                     Len(chunks[k + 1]),
                     Sha256(chunks[k + 1]), Cid(chunks[k + 1]))
  IN  IF k < Len(chunks)
      THEN [chain |-> a.chain, ledger |-> a.ledger, store |-> p.store]
      ELSE p

RECURSIVE write_chunks(_, _, _, _, _, _)
\* the first k rounds of write's loop: hash, upload, add_block
write_chunks(st, filename, chunks, k, tss, svs) ==
  IF k = 0 THEN st
  ELSE LET p == write_chunks(st, filename, chunks, k - 1, tss, svs)
           a == add_block([chain |-> p.chain, ledger |-> p.ledger],
                          tss[k], svs[k], filename, Len(chunks[k]),
                          Sha256(chunks[k]), Cid(chunks[k]))
       IN  [chain |-> a.chain, ledger |-> a.ledger,
            store |-> upload_chunk(p.store, chunks[k])]

\* the except clause of read and of write: whatever was raised in the try
\* block, the FuseOSError included, is logged and raised again as EIO
except_Exception(e) == "EIO"

\* the saves among the first k that fail
Failed(svs, k) == Cardinality({i \in 1..k : svs[i] # "saved"})

\* BlockchainFUSE.write; the upload of chunk nUp + 1 fails, if there is one
Write(f, data, offset, nUp, tss, svs) ==
  LET chunks == split(data, CHUNK_SIZE)
      k == Min(nUp, Len(chunks))
      st == write_chunks([chain |-> chain, ledger |-> ledger,
                          store |-> store], f, chunks, k, tss, svs)
      r == [Ret("write", f) EXCEPT !.data = data, !.offset = offset,
                                   !.saved = (k = 0 \/ svs[k] = "saved")]
  IN  IF offset # 0
      THEN /\ ret' = [r EXCEPT !.ok = FALSE,
                               !.errno = except_Exception("ENOSYS"),
                               !.cause = "NotSupported"]
           /\ UNCHANGED <<chain, ledger, store, files, faults, tampers, peer>>
      ELSE /\ Len(chain) + k <= MaxChain
           /\ chain' = st.chain
           /\ ledger' = st.ledger
           /\ store' = st.store
           /\ faults' = faults + Failed(svs, k)
           /\ faults' <= MaxFaults
           /\ UNCHANGED <<tampers, peer>>
           /\ IF k < Len(chunks)
              THEN /\ files' = files
                   /\ ret' = [r EXCEPT !.ok = FALSE,
                                       !.errno = except_Exception("EIO"),
                                       !.cause = "StoreFailure", !.n = k]
              ELSE /\ files' = Put(files, f, Len(data))
                   /\ ret' = [r EXCEPT !.n = k, !.size = Len(data)]

RECURSIVE read_loop_partial(_, _, _, _, _)
\* the chunk loop of read leaving the loop at a failed fetch and returning
\* the chunks joined so far
read_loop_partial(st, bs, i, failAt, acc) ==
  IF i > Len(bs)
  THEN [ok |-> TRUE, cause |-> "", out |-> acc, fetches |-> Len(bs)]
  ELSE LET chunk_data == download_chunk(st, bs[i].ipfs_hash, failAt = i)
       IN  IF chunk_data = None
           THEN [ok |-> TRUE, cause |-> "", out |-> acc, fetches |-> i]
           ELSE IF ~verify_chunk(chunk_data, bs[i].chunk_hash)
           THEN [ok |-> FALSE, cause |-> "HashMismatch", out |-> <<>>,
                 fetches |-> i]
           ELSE read_loop_partial(st, bs, i + 1, failAt, acc \o chunk_data)

RECURSIVE read_loop(_, _, _, _, _)
\* the chunk loop of read, from the i-th block of the file on
read_loop(st, bs, i, failAt, acc) ==
  IF i > Len(bs)
  THEN [ok |-> TRUE, cause |-> "", out |-> acc, fetches |-> Len(bs)]
  ELSE LET chunk_data == download_chunk(st, bs[i].ipfs_hash, failAt = i)
       IN  IF chunk_data = None
           THEN [ok |-> FALSE, cause |-> "FetchFailure", out |-> <<>>,
                 fetches |-> i]
           ELSE IF ~verify_chunk(chunk_data, bs[i].chunk_hash)
           THEN [ok |-> FALSE, cause |-> "HashMismatch", out |-> <<>>,
                 fetches |-> i]
           ELSE read_loop(st, bs, i + 1, failAt, acc \o chunk_data)

RECURSIVE sort_by_index(_)
\* file_blocks.sort(key=lambda b: b.index): a stable sort
sort_by_index(bs) ==
  IF bs = <<>> THEN <<>>
  ELSE LET front == sort_by_index(SubSeq(bs, 1, Len(bs) - 1))
           b == bs[Len(bs)]
           k == Cardinality({i \in 1..Len(front) :
                               front[i].index <= b.index})
       IN  SubSeq(front, 1, k) \o <<b>> \o SubSeq(front, k + 1, Len(front))

\* read without the call of detect_tampering before the chunk loop
read_without_detection(c, st, filename, size, offset, failAt) ==
  LET file_blocks == sort_by_index(get_file_blocks(c, filename))
      r == read_loop(st, file_blocks, 1, failAt, <<>>)
  IN  IF file_blocks = <<>>
      THEN [ok |-> FALSE, cause |-> "NotFound", out |-> <<>>, fetches |-> 0]
      ELSE IF r.ok
      THEN [r EXCEPT !.out = Slice(r.out, offset, offset + size)]
      ELSE r

\* read returning the first size bytes whatever the offset
read_from_start(c, st, filename, size, offset, failAt) ==
  LET file_blocks == sort_by_index(get_file_blocks(c, filename))
      r == read_loop(st, file_blocks, 1, failAt, <<>>)
  IN  IF file_blocks = <<>>
      THEN [ok |-> FALSE, cause |-> "NotFound", out |-> <<>>, fetches |-> 0]
      ELSE IF detect_tampering(c, filename) # <<>>
      THEN [ok |-> FALSE, cause |-> "IntegrityViolation", out |-> <<>>,
            fetches |-> 0]
      ELSE IF r.ok
      THEN [r EXCEPT !.out = Slice(r.out, 0, size)]
      ELSE r

\* BlockchainFUSE.read: what it returns or raises
read(c, st, filename, size, offset, failAt) ==
  LET file_blocks == sort_by_index(get_file_blocks(c, filename))
      r == read_loop(st, file_blocks, 1, failAt, <<>>)
  IN  IF file_blocks = <<>>
      THEN [ok |-> FALSE, cause |-> "NotFound", out |-> <<>>, fetches |-> 0]
      ELSE IF detect_tampering(c, filename) # <<>>
      THEN [ok |-> FALSE, cause |-> "IntegrityViolation", out |-> <<>>,
            fetches |-> 0]
      ELSE IF r.ok
      THEN [r EXCEPT !.out = Slice(r.out, offset, offset + size)]
      ELSE r

Read(f, size, offset, failAt) ==
  LET r == read(chain, store, f, size, offset, failAt)
  IN  /\ ret' = [Ret("read", f) EXCEPT
                   !.size = size, !.offset = offset, !.ok = r.ok,
                   !.errno = IF r.ok THEN ""
                             ELSE IF r.cause = "NotFound"
                             THEN except_Exception("ENOENT")
                             ELSE except_Exception("EIO"),
                   !.cause = r.cause, !.out = r.out, !.n = failAt,
                   !.fetches = r.fetches]
      /\ UNCHANGED <<chain, ledger, store, files, faults, tampers, peer>>

\* BlockchainFUSE.create
Create(f) ==
  /\ files' = Put(files, f, 0)
  /\ ret' = Ret("create", f)
  /\ UNCHANGED <<chain, ledger, store, faults, tampers, peer>>

\* BlockchainFUSE.truncate
Truncate(f) ==
  /\ ret' = [Ret("truncate", f) EXCEPT !.ok = FALSE, !.errno = "EPERM"]
  /\ UNCHANGED <<chain, ledger, store, files, faults, tampers, peer>>

\* unlink forgetting the file's entry in self.files before it raises
Unlink_forgetting(f) ==
  /\ files' = [x \in DOMAIN files \ {f} |-> files[x]]
  /\ ret' = [Ret("unlink", f) EXCEPT !.ok = FALSE, !.errno = "EPERM"]
  /\ UNCHANGED <<chain, ledger, store, faults, tampers, peer>>

\* BlockchainFUSE.unlink
Unlink(f) ==
  /\ ret' = [Ret("unlink", f) EXCEPT !.ok = FALSE, !.errno = "EPERM"]
  /\ UNCHANGED <<chain, ledger, store, files, faults, tampers, peer>>

\* truncate that lets the request through
truncate_allowed(filename, length) == [ok |-> TRUE, errno |-> ""]

\* BlockchainFUSE.truncate: what it returns or raises
truncate(filename, length) == [ok |-> FALSE, errno |-> "EPERM"]

\* the data the test tries to put in place of a file's content
NewContents == {<<"b">>}

\* open(test_file, 'w') and f.write(...) on a file written through this
\* mount: the open truncates the file, and the write at offset 0 is issued
\* only if the open succeeded
OpenForWriting(f, data, ts) ==
  LET t == truncate(f, 0)
      chunks == split(data, CHUNK_SIZE)
      st == write_chunks([chain |-> chain, ledger |-> ledger,
                          store |-> store], f, chunks, Len(chunks),
                         [i \in 1..Len(chunks) |-> ts],
                         [i \in 1..Len(chunks) |-> "saved"])
      r == [Ret("modify", f) EXCEPT !.data = data]
  IN  /\ f \in DOMAIN files
      /\ get_file_blocks(chain, f) # <<>>
      /\ IF ~t.ok
         THEN /\ ret' = [r EXCEPT !.ok = FALSE, !.errno = t.errno]
              /\ UNCHANGED <<chain, ledger, store, files, faults, tampers, peer>>
         ELSE /\ Len(chain) + Len(chunks) <= MaxChain
              /\ chain' = st.chain
              /\ ledger' = st.ledger
              /\ store' = st.store
              /\ files' = Put(files, f, Len(data))
              /\ ret' = [r EXCEPT !.n = Len(chunks), !.size = Len(data)]
              /\ UNCHANGED <<faults, tampers, peer>>

\* ------------------------------------------------- attributes and listing
Root == <<"/">>
Path(filename) == Root \o filename
Dots == {<<".">>, <<".", ".">>}

RECURSIVE total_size(_)
\* sum(block.file_size for block in file_blocks)
total_size(bs) ==
  IF bs = <<>> THEN 0 ELSE Head(bs).file_size + total_size(Tail(bs))

\* BlockchainFUSE.getattr: what it returns or raises, and self.files after it
getattr(fl, c, path) ==
  LET filename == Tail(path)
      file_blocks == get_file_blocks(c, filename)
  IN  IF path = Root
      THEN [ok |-> TRUE, errno |-> "", dir |-> TRUE, st_size |-> 0,
            files |-> fl]
      ELSE IF filename \in DOMAIN fl
      THEN [ok |-> TRUE, errno |-> "", dir |-> FALSE,
            st_size |-> fl[filename], files |-> fl]
      ELSE IF file_blocks # <<>>
      THEN [ok |-> TRUE, errno |-> "", dir |-> FALSE,
            st_size |-> total_size(file_blocks),
            files |-> Put(fl, filename, total_size(file_blocks))]
      ELSE [ok |-> FALSE, errno |-> "ENOENT", dir |-> FALSE, st_size |-> 0,
            files |-> fl]

\* BlockchainFUSE.readdir on the root: the entries of the list it returns
readdir(fl, c) ==
  LET blockchain_files == {c[i].filename : i \in {j \in 1..Len(c) :
                                               c[j].filename # GENESIS}}
  IN  Dots \cup (DOMAIN fl \cup blockchain_files)

GetAttr(path) ==
  LET r == getattr(files, chain, path)
  IN  /\ files' = r.files
      /\ ret' = [Ret("getattr", Tail(path)) EXCEPT
                   !.ok = r.ok, !.errno = r.errno, !.size = r.st_size]
      /\ UNCHANGED <<chain, ledger, store, faults, tampers, peer>>

ReadDir(path) ==
  /\ ret' = IF path # Root
            THEN [Ret("readdir", Tail(path)) EXCEPT
                    !.ok = FALSE, !.errno = "ENOENT"]
            ELSE [Ret("readdir", <<>>) EXCEPT
                    !.names = readdir(files, chain)]
  /\ UNCHANGED <<chain, ledger, store, files, faults, tampers, peer>>

\* ------------------------------------------------------ the integrity checker
\* IntegrityChecker.verify_file: the boolean it returns; the fetch of the
\* failAt-th chunk fails, if there is one
verify_file(c, st, filename, failAt) ==
  LET file_blocks == sort_by_index(get_file_blocks(c, filename))
      verified_chunks ==
        Cardinality({i \in 1..Len(file_blocks) :
          LET chunk_data == download_chunk(st, file_blocks[i].ipfs_hash,
                                           failAt = i)
          IN  /\ chunk_data # None
              /\ verify_chunk(chunk_data, file_blocks[i].chunk_hash)})
  IN  IF file_blocks = <<>> THEN FALSE
      ELSE IF detect_tampering(c, filename) # <<>> THEN FALSE
      ELSE verified_chunks = Len(file_blocks)

VerifyFile(f, failAt) ==
  /\ ret' = [Ret("verify", f) EXCEPT
               !.ok = verify_file(chain, store, f, failAt), !.n = failAt]
  /\ UNCHANGED <<chain, ledger, store, files, faults, tampers, peer>>

\* verify_blockchain skipping the test for an empty chain
verify_blockchain_unguarded(c) == validate_chain(c)

\* IntegrityChecker.verify_blockchain: False on an empty chain, else what
\* validate_chain returns
verify_blockchain(c) == IF c = <<>> THEN FALSE ELSE validate_chain(c)

VerifyBlockchain ==
  /\ ret' = [Ret("verify-blockchain", <<>>) EXCEPT
               !.ok = verify_blockchain(chain)]
  /\ UNCHANGED <<chain, ledger, store, files, faults, tampers, peer>>

\* ------------------------------------------------------ the ledger's calls
\* Blockchain.add_block called directly, as the scripts do
AddBlock(f, chunk, ts, sv) ==
  LET st == add_block([chain |-> chain, ledger |-> ledger], ts, sv, f,
                      Len(chunk), Sha256(chunk), Cid(chunk))
  IN  /\ Len(chain) < MaxChain
      /\ chain' = st.chain
      /\ ledger' = st.ledger
      /\ faults' = faults + (IF sv = "saved" THEN 0 ELSE 1)
      /\ faults' <= MaxFaults
      /\ ret' = [Ret("append", f) EXCEPT !.data = chunk, !.n = 1,
                                          !.saved = (sv = "saved")]
      /\ UNCHANGED <<store, files, tampers, peer>>

\* validate_chain cutting an invalid chain back to its genesis block
ValidateChain_resetting ==
  /\ ret' = [Ret("validate", <<>>) EXCEPT !.ok = validate_chain(chain)]
  /\ chain' = IF validate_chain(chain) THEN chain ELSE <<chain[1]>>
  /\ UNCHANGED <<ledger, store, files, faults, tampers, peer>>

\* Blockchain.validate_chain, called by the checker and the scripts
ValidateChain ==
  /\ ret' = [Ret("validate", <<>>) EXCEPT !.ok = validate_chain(chain)]
  /\ UNCHANGED <<chain, ledger, store, files, faults, tampers, peer>>

DetectTampering(f) ==
  /\ ret' = [Ret("detect", f) EXCEPT !.idx = detect_tampering(chain, f)]
  /\ UNCHANGED <<chain, ledger, store, files, faults, tampers, peer>>

\* the process ends and a new one imports blockchain.py and main.py
Restart(loadFails, ts, sv) ==
  LET c == load_blockchain(ledger, loadFails)
      st == init_blockchain(ledger, loadFails, ts, sv)
  IN  /\ faults' = faults + (IF loadFails THEN 1 ELSE 0)
                          + (IF c = <<>> /\ sv # "saved" THEN 1 ELSE 0)
      /\ faults' <= MaxFaults
      /\ chain' = st.chain
      /\ ledger' = st.ledger
      /\ files' = <<>>
      /\ ret' = [Ret("restart", <<>>) EXCEPT
                   !.saved = (c # <<>> \/ sv = "saved"),
                   !.n = Len(ledger.blocks),
                   !.cause = IF LoadRaises(ledger, loadFails)
                             THEN "LoadFailure" ELSE ""]
      /\ UNCHANGED <<store, tampers, peer>>

\* ------------------------------------------------------------ specification
\* the file and the chunk a script passes to add_block without an upload
ScriptNames == {<<"g">>}
ScriptChunks == {<<"x">>}

WriteNext ==
  \/ \E f \in Filenames, data \in Datas :
       \E nUp \in 0..Len(split(data, CHUNK_SIZE)) :
         \E tss \in [1..nUp -> Timestamps], svs \in [1..nUp -> SaveOutcomes] :
           Write(f, data, 0, nUp, tss, svs)
  \/ Write(<<"f">>, <<"a">>, 1, 0, <<>>, <<>>)

ReadNext ==
  \E f \in Filenames :
    \/ Read(f, MaxLen, 0, 0)
    \/ Read(f, 1, 1, 0)
    \/ Read(f, MaxLen, 0, 2)

AddBlockNext ==
  \E f \in ScriptNames, chunk \in ScriptChunks, ts \in Timestamps,
     sv \in SaveOutcomes :
    AddBlock(f, chunk, ts, sv)

RestartNext ==
  \E loadFails \in BOOLEAN, ts \in Timestamps, sv \in SaveOutcomes :
    Restart(loadFails, ts, sv)

Next ==
  \/ WriteNext
  \/ ReadNext
  \/ AddBlockNext
  \/ ValidateChain
  \/ \E f \in Filenames : DetectTampering(f)
  \/ \E f \in Filenames : Create(f)
  \/ \E f \in Filenames : Truncate(f)
  \/ \E f \in Filenames : Unlink(f)
  \/ \E f \in Filenames, data \in NewContents, ts \in Timestamps :
       OpenForWriting(f, data, ts)
  \/ RestartNext

Spec == Init /\ [][Next]_vars

\* ---------------------------------------------------------------- tampering
\* Someone edits a block of the chain, or the bytes behind an address, as
\* standalone_test.py and the demo do (blockchain.chain[1].hash = "...").
Fields ==
  {"index", "timestamp", "filename", "file_size", "chunk_hash", "ipfs_hash",
   "previous_hash", "nonce", "hash"}

\* the values a field is changed to
TamperValues(field) ==
  CASE field = "index" -> {MaxChain}
    [] field = "timestamp" -> {<<"1">>}
    [] field = "filename" -> Filenames
    [] field = "file_size" -> {7}
    [] field = "chunk_hash" -> {ZeroHash}
    [] field = "ipfs_hash" -> {<<>>}
    [] field = "previous_hash" -> {ZeroHash}
    [] field = "nonce" -> {MAX_NONCE}
    [] field = "hash" -> {<<"x">>}

TamperBlock(pos, field, value) ==
  /\ tampers < MaxTamper
  /\ pos \in 1..Len(chain)
  /\ chain[pos][field] # value
  /\ chain' = [chain EXCEPT ![pos][field] = value]
  /\ tampers' = tampers + 1
  /\ ret' = [Ret("tamper", <<>>) EXCEPT !.pos = pos, !.field = field,
                                        !.before = chain]
  /\ UNCHANGED <<ledger, store, files, faults, peer>>

\* the field is given its original value back, right after the change
RestoreBlock ==
  /\ ret.op = "tamper"
  /\ chain' = [chain EXCEPT ![ret.pos][ret.field] =
                                         ret.before[ret.pos][ret.field]]
  /\ ret' = [ret EXCEPT !.op = "restore"]
  /\ UNCHANGED <<ledger, store, files, faults, tampers, peer>>

\* the store returns other bytes for an address than were put there
CorruptStore(addr, bytes) ==
  /\ tampers < MaxTamper
  /\ addr \in DOMAIN store
  /\ store[addr] # bytes
  /\ store' = [store EXCEPT ![addr] = bytes]
  /\ tampers' = tampers + 1
  /\ ret' = [Ret("corrupt", addr) EXCEPT !.before = chain]
  /\ UNCHANGED <<chain, ledger, files, faults, peer>>

TamperNext ==
  \/ \E pos \in 1..MaxChain, field \in Fields :
       \E value \in TamperValues(field) : TamperBlock(pos, field, value)
  \/ RestoreBlock
  \/ \E addr \in DOMAIN store : CorruptStore(addr, <<"x">>)

\* Files are written on a disk that does not fail; then someone tampers, and
\* the chain and the files are read and validated.
NextTamper ==
  \/ WriteNext /\ faults' = faults /\ tampers = 0
  \/ ReadNext
  \/ ValidateChain
  \/ \E f \in Filenames : DetectTampering(f)
  \/ TamperNext

\* the ledger file was saved when the genesis block was created
InitTamper == Init /\ faults = 0

SpecTamper == InitTamper /\ [][NextTamper]_vars

\* ------------------------------------------------------- a second process
\* A script (quick_test.py, demo.py) runs a second Python process on the same
\* BLOCKCHAIN_FILE while the filesystem is mounted.  It has its own
\* Blockchain object; only the file is shared, and nothing locks it.

\* from blockchain import blockchain: load the file, or start a new chain,
\* which is then still to be saved
PeerImport(ts) ==
  LET c == load_blockchain(ledger, FALSE)
  IN  /\ peer.pc = "down"
      /\ peer' = IF c = <<>>
                 THEN [pc |-> "appended", chain |-> <<genesis_block(ts)>>]
                 ELSE [pc |-> "idle", chain |-> c]
      /\ ret' = Ret("peer", <<>>)
      /\ UNCHANGED <<chain, ledger, store, files, faults, tampers>>

\* add_block up to self.chain.append(new_block)
PeerAppend(f, chunk, ts) ==
  /\ peer.pc = "idle"
  /\ Len(peer.chain) < MaxChain
  /\ peer' = [pc |-> "appended",
              chain |-> Append(peer.chain,
                               new_block(peer.chain, ts, f, Len(chunk),
                                         Sha256(chunk), Cid(chunk)))]
  /\ ret' = Ret("peer", f)
  /\ UNCHANGED <<chain, ledger, store, files, faults, tampers>>

\* save_blockchain: open(self.blockchain_file, 'w') empties the file
PeerOpen ==
  /\ peer.pc = "appended"
  /\ ledger' = save_blockchain(ledger, peer.chain, "partial")
  /\ peer' = [peer EXCEPT !.pc = "opened"]
  /\ ret' = Ret("peer", <<>>)
  /\ UNCHANGED <<chain, store, files, faults, tampers>>

\* save_blockchain: json.dump and the end of the with block
PeerDump ==
  /\ peer.pc = "opened"
  /\ ledger' = save_blockchain(ledger, peer.chain, "saved")
  /\ peer' = [peer EXCEPT !.pc = "idle"]
  /\ ret' = Ret("peer", <<>>)
  /\ UNCHANGED <<chain, store, files, faults, tampers>>

\* the script ends
PeerExit ==
  /\ peer.pc = "idle"
  /\ peer' = PeerDown
  /\ ret' = Ret("peer", <<>>)
  /\ UNCHANGED <<chain, ledger, store, files, faults, tampers>>

PeerNext ==
  \/ \E ts \in Timestamps : PeerImport(ts)
  \/ \E f \in ScriptNames, chunk \in ScriptChunks, ts \in Timestamps :
       PeerAppend(f, chunk, ts)
  \/ PeerOpen
  \/ PeerDump
  \/ PeerExit

\* The filesystem process and the script run side by side on a disk that
\* does not fail.
NextConc ==
  \/ WriteNext /\ faults' = faults /\ ret'.ok
  \/ RestartNext /\ faults' = faults
  \/ PeerNext

SpecConc == InitTamper /\ [][NextConc]_vars

\* ------------------------------------------------------- the mounted names
\* The calls the kernel makes on the mount point for the names a user can
\* type, the name of the genesis block among them, on a disk that does not
\* fail.
Names == Filenames \cup {GENESIS}
NameDatas == {<<>>, <<"a">>, <<"a", "b", "a">>}

WriteNames ==
  \E f \in Names, data \in NameDatas :
    \E nUp \in 0..Len(split(data, CHUNK_SIZE)) :
      \E tss \in [1..nUp -> Timestamps] :
        Write(f, data, 0, nUp, tss, [i \in 1..nUp |-> "saved"])

NextNames ==
  \/ WriteNames
  \/ \E f \in Names : Create(f)
  \/ \E f \in Names : GetAttr(Path(f))
  \/ GetAttr(Root)
  \/ \E path \in {Root, Path(<<"f">>)} : ReadDir(path)
  \/ \E f \in Names : Read(f, MaxLen, 0, 0)
  \/ \E f \in Names : VerifyFile(f, 0)
  \/ ValidateChain
  \/ \E f \in Names : DetectTampering(f)
  \/ \E ts \in Timestamps : Restart(FALSE, ts, "saved")

SpecNames == InitTamper /\ [][NextNames]_vars

\* ------------------------------------------------------------ the chunk codec
\* The split of write's chunk loop and the concatenation of read's, applied to
\* every buffer over two bytes up to MaxLen long and to every chunk size up to
\* one more than that.
CodecDatas ==
  UNION {[1..n -> {"a", "b"}] : n \in 0..MaxLen}
ChunkSizes == 1..(MaxLen + 1)

InitCodec ==
  \E data \in CodecDatas, n \in ChunkSizes, ts \in Timestamps :
    /\ chain = <<genesis_block(ts)>>
    /\ ledger = save_blockchain(NoLedger, <<genesis_block(ts)>>, "saved")
    /\ store = <<>>
    /\ files = <<>>
    /\ faults = 0
    /\ tampers = 0
    /\ peer = PeerDown
    /\ ret = [Ret("buffer", <<>>) EXCEPT !.data = data, !.size = n]

\* chunks = [], then the loop that fills it
SplitData ==
  /\ ret.op = "buffer"
  /\ ret' = [ret EXCEPT !.op = "split", !.before = split(ret.data, ret.size)]
  /\ UNCHANGED <<chain, ledger, store, files, faults, tampers, peer>>

\* file_data = b'', then file_data += chunk_data for each chunk
JoinChunks ==
  /\ ret.op = "split"
  /\ ret' = [ret EXCEPT !.op = "join", !.out = join(ret.before)]
  /\ UNCHANGED <<chain, ledger, store, files, faults, tampers, peer>>

NextCodec == SplitData \/ JoinChunks

SpecCodec == InitCodec /\ [][NextCodec]_vars

\* ------------------------------------------------------------------ restarts
\* Processes that start one after another on the ledger file the first one
\* left: whatever became of the first save, MaxFaults later saves and loads
\* fail.
InitBoot ==
  \E ts \in Timestamps, sv \in SaveOutcomes :
    LET st == init_blockchain(NoLedger, FALSE, ts, sv)
    IN  /\ chain = st.chain
        /\ ledger = st.ledger
        /\ store = <<>>
        /\ files = <<>>
        /\ faults = 0
        /\ tampers = 0
        /\ ret = [NoRet EXCEPT !.saved = (sv = "saved")]
        /\ peer = PeerDown

NextBoot ==
  \/ RestartNext
  \/ \E f \in Filenames, chunk \in ScriptChunks, ts \in Timestamps,
        sv \in SaveOutcomes :
       AddBlock(f, chunk, ts, sv)
  \/ ValidateChain
  \/ VerifyBlockchain
  \/ \E f \in Filenames : DetectTampering(f)

SpecBoot == InitBoot /\ [][NextBoot]_vars

\* ==================================================================== claims
Elems(seq) == {seq[i] : i \in 1..Len(seq)}

\* the bytes the store holds for a block, None if it holds none
Stored(b) == download_chunk(store, b.ipfs_hash, FALSE)

\* the store and the chain are uncorrupted as far as file f goes: no block of
\* f is flagged and the store holds, for every block of f, the bytes hashed
Uncorrupted(f) ==
  /\ detect_tampering(chain, f) = <<>>
  /\ \A b \in Elems(get_file_blocks(chain, f)) :
       Stored(b) # None /\ Sha256(Stored(b)) = b.chunk_hash

\* C1: after a successful write of non-empty data to f, with store and chain
\* uncorrupted, reading f at offset 0 with size len(data) returns data.
C1_ReadAfterWrite ==
  (ret.op = "write" /\ ret.ok /\ ret.data # <<>> /\ Uncorrupted(ret.f)) =>
    LET r == read(chain, store, ret.f, Len(ret.data), 0, 0)
    IN  r.ok /\ r.out = ret.data

\* the three checks the specification lists, on the block at position i
HashMatches(c, i) == c[i].hash = calculate_hash(c[i])
Linked(c, i) == i > 1 => c[i].previous_hash = c[i - 1].hash
Sealed(c, i) == StartsWith(c[i].hash, Target)

\* C2 as stated: validate() is true iff EVERY block, the genesis block
\* included, has a matching hash, a link to its predecessor and the prefix.
C2_EveryBlock ==
  validate_chain(chain) <=>
    \A i \in 1..Len(chain) :
      HashMatches(chain, i) /\ Linked(chain, i) /\ Sealed(chain, i)

\* C2 amended: validate() is true iff every block after the genesis block has
\* a matching hash, a link to its predecessor and the proof-of-work prefix.
C2_EveryBlockAfterGenesis ==
  validate_chain(chain) <=>
    \A i \in 2..Len(chain) :
      HashMatches(chain, i) /\ Linked(chain, i) /\ Sealed(chain, i)

\* a chain whose only defect is a broken link: every hash matches and is sealed
C2_Witness ==
  /\ ~validate_chain(chain)
  /\ \A i \in 2..Len(chain) : HashMatches(chain, i) /\ Sealed(chain, i)

\* C3: one field of a block after the genesis block of a valid chain is given
\* another value: detect_tampering of the block's filename then lists the
\* block's index (filename and index as the block now stores them) and
\* validate() is false; with the old value back, validate() is true again.
C3_TamperDetected ==
  /\ (ret.op = "tamper" /\ ret.pos > 1 /\ validate_chain(ret.before)) =>
       /\ chain[ret.pos].index \in
            Elems(detect_tampering(chain, chain[ret.pos].filename))
       /\ ~validate_chain(chain)
  /\ (ret.op = "restore" /\ ret.pos > 1 /\ validate_chain(ret.before)) =>
       validate_chain(chain)

C3_Witness ==
  /\ ret.op = "restore"
  /\ ret.pos > 1
  /\ ret.field = "ipfs_hash"
  /\ validate_chain(ret.before)

IsPrefix(a, b) == Len(a) <= Len(b) /\ SubSeq(b, 1, Len(a)) = a

ChainOps ==
  {"append", "write", "read", "validate", "detect", "create", "truncate",
   "unlink"}

\* C4: no step of add_block, write, read, validate_chain, detect_tampering,
\* create, truncate or unlink edits or removes a block that is on the chain:
\* the chain before the step is a prefix of the chain after it.
C4_AppendOnly ==
  [][ret'.op \in ChainOps => IsPrefix(chain, chain')]_vars

\* a block appended by a script on top of a block a write has appended
C4_Witness ==
  /\ ret.op = "append"
  /\ Len(chain) = MaxChain
  /\ chain[2].filename = <<"f">>

\* C5: in every state reached by appends and restarts, every block after the
\* first holds as previous_hash the stored hash of the block before it.
C5_Linked ==
  \A i \in 2..Len(chain) : chain[i].previous_hash = chain[i - 1].hash

\* a chain of three blocks loaded back by a restart
C5_Witness == ret.op = "restart" /\ Len(chain) = MaxChain

\* C6: the block at position i, counted from 0, has index i.
C6_IndexIsPosition == \A i \in 1..Len(chain) : chain[i].index = i - 1

\* a write of two chunks on top of the genesis block
C6_Witness == ret.op = "write" /\ ret.ok /\ ret.n = 2 /\ Len(chain) = 3

\* C7: the stored hash of every block add_block has appended starts with
\* DIFFICULTY zeros.
C7_EveryBlockSealed == \A i \in 2..Len(chain) : Sealed(chain, i)

\* C8: a successful write of L > 0 bytes to f appends ceil(L / CHUNK_SIZE)
\* blocks, each with filename f, with sizes CHUNK_SIZE, ..., CHUNK_SIZE and
\* then the rest, with indices following on from the old chain length, and
\* validate() is true afterwards.
C8_Appended(old, new, f, L) ==
  LET k == (L + CHUNK_SIZE - 1) \div CHUNK_SIZE
  IN  /\ Len(new) = Len(old) + k
      /\ IsPrefix(old, new)
      /\ \A j \in 1..k :
           LET b == new[Len(old) + j]
           IN  /\ b.filename = f
               /\ b.index = Len(old) + j - 1
               /\ b.file_size = IF j < k THEN CHUNK_SIZE
                                ELSE L - (k - 1) * CHUNK_SIZE

C8_WriteAppends ==
  [][(ret'.op = "write" /\ ret'.ok /\ ret'.data # <<>>) =>
       /\ C8_Appended(chain, chain', ret'.f, Len(ret'.data))
       /\ validate_chain(chain')]_vars

\* the reads a state is asked about; a file has at most MaxChain - 1 blocks
ReadSizes == {0, 1, MaxLen}
ReadOffsets == {0, 1, MaxLen}
FailAts == 0..(MaxChain - 1)

\* the bytes the store would return for block b of a read whose fetch of the
\* failAt-th block fails
Fetched(bs, i, failAt) == download_chunk(store, bs[i].ipfs_hash, failAt = i)

Verified(bs, i, failAt) ==
  /\ Fetched(bs, i, failAt) # None
  /\ Sha256(Fetched(bs, i, failAt)) = bs[i].chunk_hash

\* the read gets, for its i-th block, bytes that do not hash to chunk_hash
Mismatched(bs, i, failAt) ==
  /\ Fetched(bs, i, failAt) # None
  /\ Sha256(Fetched(bs, i, failAt)) # bs[i].chunk_hash

\* C9: when the store returns to a read, for a block of f, bytes whose hash
\* differs from the block's chunk_hash, the read fails with HashMismatch
\* whatever the offset and size, and returns no bytes.
C9_MismatchFails ==
  \A f \in Filenames, size \in ReadSizes, offset \in ReadOffsets,
     failAt \in FailAts :
    LET bs == get_file_blocks(chain, f)
        r == read(chain, store, f, size, offset, failAt)
    IN  \A i \in 1..Len(bs) :
          Mismatched(bs, i, failAt) =>
            /\ ~r.ok
            /\ r.out = <<>>
            /\ (/\ detect_tampering(chain, f) = <<>>
                /\ \A j \in 1..(i - 1) : Verified(bs, j, failAt))
               => r.cause = "HashMismatch"

\* a read whose first chunk verifies and whose second chunk does not
C9_Witness ==
  /\ ret.op = "read"
  /\ ret.cause = "HashMismatch"
  /\ ret.fetches = 2
  /\ ret.errno = "EIO"

\* C10: a read returns either the requested slice of all the chunks of f
\* joined in chain order, each fetched and verified, or no bytes at all.
C10_AllOrNothing ==
  \A f \in Filenames, size \in ReadSizes, offset \in ReadOffsets,
     failAt \in FailAts :
    LET bs == get_file_blocks(chain, f)
        r == read(chain, store, f, size, offset, failAt)
        whole == join([i \in 1..Len(bs) |-> Fetched(bs, i, failAt)])
    IN  IF r.ok
        THEN /\ \A i \in 1..Len(bs) : Verified(bs, i, failAt)
             /\ r.out = Slice(whole, offset, offset + size)
        ELSE r.out = <<>>

\* a read that fetched and verified one chunk and failed to fetch the next
C10_Witness ==
  /\ ret.op = "read"
  /\ ~ret.ok
  /\ ret.cause = "FetchFailure"
  /\ ret.fetches = 2
  /\ ret.out = <<>>

\* C11: when detect_tampering(f) is not empty, a read of f fails with
\* IntegrityViolation whatever the offset and size, returns no bytes and
\* fetches nothing from the store.
C11_TamperedFileUnreadable ==
  \A f \in Filenames, size \in ReadSizes, offset \in ReadOffsets,
     failAt \in FailAts :
    LET r == read(chain, store, f, size, offset, failAt)
    IN  detect_tampering(chain, f) # <<>> =>
          /\ ~r.ok
          /\ r.cause = "IntegrityViolation"
          /\ r.out = <<>>
          /\ r.fetches = 0

\* a read of a file one of whose blocks is flagged, its chunks still in store
C11_Witness ==
  /\ ret.op = "read"
  /\ ret.cause = "IntegrityViolation"
  /\ ret.errno = "EIO"
  /\ ret.fetches = 0
  /\ detect_tampering(chain, ret.f) # <<>>
  /\ \A b \in Elems(get_file_blocks(chain, ret.f)) :
       Stored(b) # None /\ Sha256(Stored(b)) = b.chunk_hash

\* C12: when the upload of the k-th chunk of a write fails, the blocks of
\* chunks 1..k-1 of that call are on the chain, after the blocks that were
\* there before, no block is appended for chunk k or a later one, and the
\* call fails with StoreFailure.
C12_NoRollback ==
  [][(ret'.op = "write" /\ ret'.cause = "StoreFailure") =>
       LET chunks == split(ret'.data, CHUNK_SIZE)
           k == ret'.n + 1
       IN  /\ k \in 1..Len(chunks)
           /\ ~ret'.ok
           /\ ret'.errno = "EIO"
           /\ IsPrefix(chain, chain')
           /\ Len(chain') = Len(chain) + k - 1
           /\ \A j \in 1..(k - 1) :
                LET b == chain'[Len(chain) + j]
                IN  /\ b.filename = ret'.f
                    /\ b.chunk_hash = Sha256(chunks[j])
                    /\ b.ipfs_hash \in DOMAIN store']_vars

\* the upload of the second chunk failed and the block of the first is there
C12_Witness ==
  /\ ret.op = "write"
  /\ ret.cause = "StoreFailure"
  /\ ret.n = 1
  /\ chain[Len(chain)].filename = ret.f
  /\ chain[Len(chain)].chunk_hash = Sha256(split(ret.data, CHUNK_SIZE)[1])

\* a size that covers every file the model can hold
Large == MaxChain * MaxLen

C14_ModifyFails ==
  [][ret'.op = "modify" =>
       /\ ~ret'.ok
       /\ get_file_blocks(chain', ret'.f) = get_file_blocks(chain, ret'.f)
       /\ \A size \in ReadSizes \cup {Large}, offset \in ReadOffsets :
            read(chain', store', ret'.f, size, offset, 0)
              = read(chain, store, ret'.f, size, offset, 0)]_vars

\* a failed attempt on a file that reads back in full
C14_Witness ==
  /\ ret.op = "modify"
  /\ ~ret.ok
  /\ ret.errno = "EPERM"
  /\ read(chain, store, ret.f, Large, 0, 0).ok
  /\ read(chain, store, ret.f, Large, 0, 0).out # <<>>

\* C15: a truncate or an unlink fails with EPERM, whether the file exists or
\* not, and leaves the chain, the ledger file, the store and self.files as
\* they were.
C15_TruncateUnlinkRefused ==
  [][ret'.op \in {"truncate", "unlink"} =>
       /\ ~ret'.ok
       /\ ret'.errno = "EPERM"
       /\ UNCHANGED <<chain, ledger, store, files>>]_vars

\* an unlink of a file that has blocks and an entry in self.files
C15_Witness ==
  /\ ret.op = "unlink"
  /\ ret.errno = "EPERM"
  /\ ret.f \in DOMAIN files
  /\ get_file_blocks(chain, ret.f) # <<>>

\* C16: a write at an offset other than 0 fails with an error that tells it
\* from a store or I/O failure, before a chunk is uploaded or a block is
\* appended: chain and store are unchanged.
C16_NotSupportedFailsFast ==
  [][(ret'.op = "write" /\ ret'.offset # 0) =>
       /\ ~ret'.ok
       /\ ret'.cause = "NotSupported"
       /\ ret'.errno # "EIO"
       /\ UNCHANGED <<chain, store>>]_vars

\* C17: a read of a file that has no blocks on the chain fails with an error
\* that tells it from a failed fetch, a hash mismatch and a tampered chain,
\* and fetches nothing from the store.
C17_NotFound ==
  (ret.op = "read" /\ get_file_blocks(chain, ret.f) = <<>>) =>
    /\ ~ret.ok
    /\ ret.cause = "NotFound"
    /\ ret.errno # "EIO"
    /\ ret.fetches = 0

\* C18: appends are atomic with respect to each other.  Whatever the
\* interleaving of the two processes that append to the same ledger file, no
\* two blocks they have appended share an index or a previous_hash, and
\* when no save is under way no block either of them holds is missing from
\* the ledger file.
C18_AppendsSerialized ==
  /\ \A a \in Elems(chain), b \in Elems(peer.chain) :
       a # b => a.index # b.index /\ a.previous_hash # b.previous_hash
  /\ peer.pc \in {"down", "idle"} =>
       Elems(chain) \cup Elems(peer.chain)
         \subseteq Elems(load_blockchain(ledger, FALSE))

\* C19: a process that loads the ledger file while an append of another
\* process is in flight finds a fully written file and takes its chain from
\* it: the chain before that append or the chain after it.
C19_LoadSeesWholeLedger ==
  [][ret'.op = "restart" =>
       /\ ledger.kind = "json"
       /\ chain' = load_blockchain(ledger, FALSE)]_vars

\* the last call created the genesis block or appended blocks
Appended ==
  \/ ret.op \in {"init", "append", "restart"}
  \/ ret.op = "write" /\ ret.n >= 1

Persisted == ledger = save_blockchain(ledger, chain, "saved")

\* C20 as stated: after every append, and after the creation of the genesis
\* block, the block list of the ledger file is the whole chain in memory.
C20_LedgerIsChain == Appended => Persisted

\* C20 amended: the same, for an append or a creation of the genesis block
\* whose save of the chain did not fail.
C20_LedgerIsChainWhenSaved == (Appended /\ ret.saved) => Persisted

\* a write of two chunks, saved after each, on top of the genesis block
C20_Witness ==
  /\ ret.op = "write"
  /\ ret.n = 2
  /\ ret.saved
  /\ Len(ledger.blocks) = 3

\* the names a listing of the root gives, "." and ".." apart
Listed == readdir(files, chain) \ Dots

\* the non-genesis filenames that have at least one block
WithBlocks(c) ==
  {c[i].filename : i \in {j \in 1..Len(c) : c[j].filename # GENESIS}}

\* C21: in every state, the lookup of the attributes of a filename other than
\* GENESIS succeeds exactly when the filename has a block on the chain, and
\* the listing of the root gives exactly the filenames that have one.
C21_VisibleIffBlocks ==
  /\ \A f \in Filenames :
       getattr(files, chain, Path(f)).ok <=> f \in WithBlocks(chain)
  /\ Listed = WithBlocks(chain)

\* C22: whatever filenames are passed to write, no block with an index above
\* 0 has filename GENESIS.
C22_GenesisReserved ==
  \A i \in 1..Len(chain) :
    chain[i].index > 0 => chain[i].filename # GENESIS

\* C23: get_file_blocks(f) returns the blocks whose filename is f, all of
\* them and no other, by ascending index, and never the genesis block, not
\* even when f is GENESIS.
C23_BlocksForFile ==
  \A f \in Names :
    LET bs == get_file_blocks(chain, f)
    IN  /\ \A b \in Elems(bs) : b \in Elems(chain) /\ b.filename = f
        /\ \A i \in 2..Len(chain) :
             chain[i].filename = f => chain[i] \in Elems(bs)
        /\ \A i \in 1..(Len(bs) - 1) : bs[i].index < bs[i + 1].index
        /\ chain[1] \notin Elems(bs)

\* what C24 says of a chain
FreshChain(c) ==
  /\ Len(c) = 1
  /\ c[1].index = 0
  /\ c[1].filename = GENESIS
  /\ c[1].previous_hash = Repeat("0", HexLen)
  /\ c[1].hash = calculate_hash(c[1])
  /\ validate_chain(c)

\* C24: a chain initialized when there is no ledger file, at the start or by
\* a later process, holds one block: index 0, filename GENESIS, previous_hash
\* all zeros, hash equal to the hash recomputed from its fields; and
\* validate_chain() is true on it.
C24_FreshChain ==
  /\ ret.op = "init" => FreshChain(chain)
  /\ [][(ret'.op = "restart" /\ ledger.kind = "absent") =>
          FreshChain(chain')]_vars

\* the first process found no ledger file and created the genesis block
C24_Witness ==
  /\ ret.op = "init"
  /\ Len(chain) = 1
  /\ chain[1].filename = GENESIS
  /\ ledger.kind = "json"

\* C25: split(data, n) gives the bytes of data in order, n to a chunk but for
\* the last chunk, which holds between 1 and n bytes, and the chunks joined
\* are data again.
C25_SplitJoin ==
  /\ ret.op \in {"split", "join"} =>
       LET chunks == ret.before
           n == ret.size
       IN  /\ \A k \in 1..(Len(chunks) - 1) : Len(chunks[k]) = n
           /\ chunks # <<>> => Len(chunks[Len(chunks)]) \in 1..n
           /\ \A k \in 1..Len(chunks) :
                \A j \in 1..Len(chunks[k]) :
                  /\ (k - 1) * n + j <= Len(ret.data)
                  /\ chunks[k][j] = ret.data[(k - 1) * n + j]
  /\ ret.op = "join" => ret.out = ret.data

\* a buffer of three bytes split by two: a whole chunk and a shorter last one
C25_Witness ==
  /\ ret.op = "join"
  /\ ret.size = 2
  /\ Len(ret.data) = 3
  /\ Len(ret.before) = 2
  /\ Len(ret.before[2]) = 1
  /\ ret.out = ret.data

\* the bytes of f in the store, joined in chain order
Assembled(f) ==
  LET bs == get_file_blocks(chain, f)
  IN  join([i \in 1..Len(bs) |-> Stored(bs[i])])

\* C26: a successful read of f at offset with size returns the bytes at
\* positions offset to offset + size - 1 of the assembled file of length T:
\* max(0, min(size, T - offset)) bytes, none when offset >= T.
C26_RequestedSlice ==
  \A f \in Filenames, size \in ReadSizes, offset \in ReadOffsets :
    LET r == read(chain, store, f, size, offset, 0)
        T == Len(Assembled(f))
        want == IF T - offset <= 0 THEN 0 ELSE Min(size, T - offset)
    IN  r.ok =>
          /\ Len(r.out) = want
          /\ \A j \in 1..Len(r.out) : r.out[j] = Assembled(f)[offset + j]
          /\ offset >= T => r.out = <<>>

\* a read of one byte from the middle of a file of two blocks
C26_Witness ==
  /\ ret.op = "read"
  /\ ret.ok
  /\ ret.offset = 1
  /\ ret.size = 1
  /\ ret.out = <<"b">>
  /\ Len(get_file_blocks(chain, ret.f)) = 2
  /\ Len(Assembled(ret.f)) > 2

\* C27: verify_file(f) is true exactly when f has a block, no block of f is
\* flagged and the chunk of every block of f is fetched and hashes to the
\* block's chunk_hash, which is exactly when a read of f succeeds; and it is
\* true for the file of a write that has just succeeded.
C27_VerifyAgreesWithRead ==
  /\ \A f \in Names, failAt \in FailAts :
       LET bs == get_file_blocks(chain, f)
           v == verify_file(chain, store, f, failAt)
       IN  /\ v <=> /\ bs # <<>>
                    /\ detect_tampering(chain, f) = <<>>
                    /\ \A i \in 1..Len(bs) : Verified(bs, i, failAt)
           /\ v <=> read(chain, store, f, Large, 0, failAt).ok
  /\ (ret.op = "write" /\ ret.ok) => verify_file(chain, store, ret.f, 0)

\* every read of f gives in the second chain and store what it gives in the
\* first
SameReads(f, c1, st1, c2, st2) ==
  \A size \in {1, Large}, offset \in {0, 1}, failAt \in FailAts :
    read(c2, st2, f, size, offset, failAt)
      = read(c1, st1, f, size, offset, failAt)

\* a read of f gives what it would give if the chain held the blocks of f
\* only and the store the bytes at their addresses only
OnlyItsOwn(f) ==
  LET own == get_file_blocks(chain, f)
      addrs == {own[i].ipfs_hash : i \in 1..Len(own)} \cap DOMAIN store
  IN  SameReads(f, chain, store, own, [a \in addrs |-> store[a]])

\* C28 as stated: a write to another filename, and a change of any field of
\* a block of another file, leave every read of f as it was.
C28_OtherFilesIgnored ==
  [][\A f \in Filenames :
       (\/ ret'.op = "write" /\ ret'.f # f
        \/ /\ ret'.op = "tamper"
           /\ ret'.pos > 1
           /\ chain[ret'.pos].filename # f)
       => SameReads(f, chain, store, chain', store')]_vars

\* C28 amended: a read of f depends on the blocks whose filename is f and on
\* the bytes stored at their addresses only; so a write to another filename,
\* and a change of a field of a block of another filename that does not give
\* the block the filename f, leave every read of f as it was.
C28_OtherFilesIgnoredUnlessRenamed ==
  /\ [](\A f \in Filenames : OnlyItsOwn(f))
  /\ [][\A f \in Filenames :
          (\/ ret'.op = "write" /\ ret'.f # f
           \/ /\ ret'.op = "tamper"
              /\ chain[ret'.pos].filename # f
              /\ chain'[ret'.pos].filename # f)
          => SameReads(f, chain, store, chain', store')]_vars

\* a block of g has been changed, the chain is no longer valid, and f, written
\* before g, still reads back
C28_Witness ==
  /\ ret.op = "tamper"
  /\ ret.pos = 3
  /\ chain[3].filename = <<"g">>
  /\ ret.before[3].filename = <<"g">>
  /\ chain[2].filename = <<"f">>
  /\ ~validate_chain(chain)
  /\ read(chain, store, <<"f">>, Large, 0, 0).ok

\* the calls that only look at the chain
ReadSide == {"validate", "detect", "read", "getattr"}

\* C29: validate_chain, detect_tampering, get_file_blocks (called by the
\* others), read and getattr leave the chain and the ledger file as they
\* were, so validate_chain gives after such a call what it gave before: a
\* call of it returns what the chain before the call validates to, and a
\* result it has returned still holds of the chain after any of these calls.
C29_ReadSidePure ==
  [][ret'.op \in ReadSide =>
       /\ chain' = chain
       /\ ledger' = ledger
       /\ validate_chain(chain') = validate_chain(chain)
       /\ ret'.op = "validate" => ret'.ok = validate_chain(chain)
       /\ ret.op = "validate" => ret.ok = validate_chain(chain')]_vars

\* validate_chain has returned false on a chain of three blocks, which is
\* still what the ledger file holds
C29_Witness ==
  /\ ret.op = "validate"
  /\ ~ret.ok
  /\ Len(chain) = MaxChain
  /\ ledger = save_blockchain(ledger, chain, "saved")

\* block b is weakly sealed: no nonce below MAX_NONCE gives its fields a hash
\* with the prefix, its nonce is 0 and its hash, recomputed, lacks the prefix
WeakSeal(b) ==
  /\ MiningExhausted(b)
  /\ b.nonce = 0
  /\ b.hash = calculate_hash(b)
  /\ ~StartsWith(b.hash, Target)

HasWeakSeal(c) == \E i \in 2..Len(c) : WeakSeal(c[i])

\* every block a write or add_block step appends for which the nonce search
\* is exhausted is appended with a weak seal
C30_ExhaustedAppended ==
  ret'.op \in {"write", "append"} =>
    \A i \in (Len(chain) + 1)..Len(chain') :
      MiningExhausted(chain'[i]) => WeakSeal(chain'[i])

\* C30 as stated: a block whose nonce search is exhausted is appended with
\* nonce 0 and a hash without the prefix, and once such a block is on the
\* chain validate_chain() is false in every later state.
C30_WeakSealForever ==
  /\ [][C30_ExhaustedAppended]_vars
  /\ [][HasWeakSeal(chain) => ~validate_chain(chain')]_vars

\* C30 amended: the same, with validate_chain() false for as long as the
\* block is on the chain: no call re-mines or removes it, and only a restart
\* that does not load it back, after a failed save or a failed load, drops it.
C30_WeakSealUntilLost ==
  /\ [](HasWeakSeal(chain) => ~validate_chain(chain))
  /\ [][/\ C30_ExhaustedAppended
        /\ (HasWeakSeal(chain) /\ ret'.op # "restart") =>
             IsPrefix(chain, chain') /\ HasWeakSeal(chain')
        /\ (HasWeakSeal(chain) /\ ret'.op = "restart") =>
             \/ HasWeakSeal(chain')
             \/ chain' # chain /\ (faults' > faults \/ ~Persisted)]_vars

\* validate_chain has returned false on a chain whose second block is weakly
\* sealed and has a block appended after it
C30_Witness ==
  /\ ret.op = "validate"
  /\ ~ret.ok
  /\ Len(chain) = MaxChain
  /\ WeakSeal(chain[2])

\* a chain that holds a genesis block and nothing else
OnlyGenesis(c) ==
  /\ Len(c) = 1
  /\ c[1].index = 0
  /\ c[1].filename = GENESIS

\* C31 as stated: when the load of the ledger file raises at startup, the
\* chain is a new genesis block alone, the ledger file is rewritten to hold
\* that block alone, and the start returns with no error.
C31_HistoryDiscarded ==
  [][(ret'.op = "restart" /\ ret'.cause = "LoadFailure") =>
       /\ OnlyGenesis(chain')
       /\ ret'.ok
       /\ ledger' = save_blockchain(ledger, chain', "saved")]_vars

\* C31 amended: the same, the ledger file being rewritten if the save of the
\* new genesis block does not fail too.
C31_HistoryDiscardedWhenSaved ==
  [][(ret'.op = "restart" /\ ret'.cause = "LoadFailure") =>
       /\ OnlyGenesis(chain')
       /\ ret'.ok
       /\ ret'.saved => ledger' = save_blockchain(ledger, chain', "saved")
    ]_vars

\* a start whose load failed on a ledger file of three blocks, which now
\* holds one
C31_Witness ==
  /\ ret.op = "restart"
  /\ ret.cause = "LoadFailure"
  /\ ret.saved
  /\ ret.n = MaxChain
  /\ OnlyGenesis(chain)
  /\ ledger = save_blockchain(ledger, chain, "saved")

\* the block list of the ledger file holds the chain c field for field
HoldsChain(led, c) ==
  /\ Len(led.blocks) = Len(c)
  /\ \A i \in 1..Len(c) :
       /\ DOMAIN led.blocks[i] = DOMAIN c[i]
       /\ \A k \in DOMAIN c[i] :
            led.blocks[i][k].text =
              IF k \in IntFields THEN Str(c[i][k]) ELSE c[i][k]

\* a restart whose load succeeds on a non-empty block list
LoadedRestart ==
  /\ ret'.op = "restart"
  /\ ret'.cause = ""
  /\ ledger.kind = "json"
  /\ ledger.blocks # <<>>

\* what a restart that loads the ledger does to the ledger and the chain
RestartKeepsLedger ==
  /\ ledger' = ledger
  /\ HoldsChain(ledger, chain')
  /\ \A n \in 0..MaxChain :
       load_blockchain([ledger EXCEPT !.length = n], FALSE) = chain'
  /\ {i \in 1..Len(chain') : chain'[i].index = 0} = {1}
  /\ chain'[1].filename = GENESIS

AppendedSaved(f, chunk) ==
  {add_block([chain |-> chain, ledger |-> ledger], ts, "saved", f,
             Len(chunk), Sha256(chunk), Cid(chunk)).chain : ts \in Timestamps}

\* C33: an append whose save fails returns normally, the chain in memory
\* is the one a successful save would have left, new block at the end, so
\* validate_chain gives the same; the file is left as it was or
\* unreadable; and every append, after a failed one too, links its block
\* to the latest block in memory
C33_SaveFailureNotFatal ==
  [][ret'.op = "append" =>
       /\ ret'.ok
       /\ SubSeq(chain', 1, Len(chain)) = chain
       /\ Len(chain') = Len(chain) + 1
       /\ chain'[Len(chain')].filename = ret'.f
       /\ chain'[Len(chain')].previous_hash = chain[Len(chain)].hash
       /\ chain'[Len(chain')].index = chain[Len(chain)].index + 1
       /\ chain' \in AppendedSaved(ret'.f, ret'.data)
       /\ \A c \in AppendedSaved(ret'.f, ret'.data) :
            validate_chain(chain') = validate_chain(c)
       /\ ~ret'.saved =>
            /\ ledger' \in {ledger, save_blockchain(ledger, chain', "partial")}
            /\ ~HoldsChain(ledger', chain')]_vars

\* an append whose save failed has put a third block on the chain, after
\* the latest block in memory, and the file holds fewer blocks
C33_Witness ==
  /\ ret.op = "append"
  /\ ~ret.saved
  /\ Len(chain) = MaxChain
  /\ chain[MaxChain].previous_hash = chain[MaxChain - 1].hash
  /\ Len(ledger.blocks) < MaxChain

\* the i-th chunk of the buffer of the last write
ChunkOf(r, i) == Slice(r.data, (i - 1) * CHUNK_SIZE, i * CHUNK_SIZE)

\* the blocks a write step has appended
NewBlocks == SubSeq(chain', Len(chain) + 1, Len(chain'))

\* C34: a write appends a block for a chunk only after the upload of
\* that chunk returned an address, chunk after chunk in the order of the
\* buffer: the blocks appended are those of the first chunks, as many as
\* there were successful uploads, none for the chunk whose upload failed
\* nor for a later one, and each carries an address under which the
\* store holds bytes whose SHA-256 is the block's chunk_hash and whose
\* length is its file_size
C34_PutBeforeAppend ==
  [][(ret'.op = "write" /\ ret'.offset = 0) =>
       /\ SubSeq(chain', 1, Len(chain)) = chain
       /\ Len(NewBlocks) = ret'.n
       /\ ret'.ok <=> ret'.n = Len(split(ret'.data, CHUNK_SIZE))
       /\ ret'.n <= Len(split(ret'.data, CHUNK_SIZE))
       /\ DOMAIN store' =
            DOMAIN store \cup {NewBlocks[i].ipfs_hash : i \in 1..ret'.n}
       /\ \A a \in DOMAIN store : store'[a] = store[a]
       /\ \A i \in 1..ret'.n :
            /\ NewBlocks[i].filename = ret'.f
            /\ NewBlocks[i].ipfs_hash \in DOMAIN store'
            /\ store'[NewBlocks[i].ipfs_hash] = ChunkOf(ret', i)
            /\ NewBlocks[i].chunk_hash = Sha256(ChunkOf(ret', i))
            /\ NewBlocks[i].file_size = Len(ChunkOf(ret', i))]_vars

\* a write of two chunks has failed at the upload of the second: one
\* block was appended, for the first chunk, which the store holds
C34_Witness ==
  /\ ret.op = "write"
  /\ ret.cause = "StoreFailure"
  /\ ret.n = 1
  /\ Len(ret.data) > CHUNK_SIZE
  /\ chain[Len(chain)].filename = ret.f
  /\ chain[Len(chain)].ipfs_hash \in DOMAIN store
  /\ store[chain[Len(chain)].ipfs_hash] = ChunkOf(ret, 1)

\* the nonces below MAX_NONCE with which the hash of b has the prefix
QualifyingNonces(b) == {n \in 0..(MAX_NONCE - 1) : Qualifies(b, n)}

\* the block as add_block hands it to proof_of_work
Unmined(b) == [b EXCEPT !.nonce = 0, !.hash = <<>>]

\* b carries the least qualifying nonce, if there is one, and the hash
\* computed with the nonce it carries
MinedAsFirst(b) ==
  /\ QualifyingNonces(b) # {} =>
       /\ b.nonce \in QualifyingNonces(b)
       /\ \A m \in QualifyingNonces(b) : b.nonce <= m
       /\ StartsWith(b.hash, Target)
  /\ b.hash = calculate_hash(b)
  /\ proof_of_work(Unmined(b)) = b.nonce
  /\ proof_of_work(b) = b.nonce

\* C35: every block add_block appends carries the least nonce below
\* MAX_NONCE with which its hash has DIFFICULTY leading zeros, when there
\* is one, and the hash computed with the nonce it carries; mining the
\* same field values again, whatever nonce and hash the block carries at
\* the call, gives the same nonce
C35_FirstNonce ==
  [][ret'.op \in {"append", "write"} =>
       \A i \in (Len(chain) + 1)..Len(chain') : MinedAsFirst(chain'[i])]_vars

\* a block was appended whose nonce 0 does not qualify and whose nonce 1
\* does, and it carries nonce 1 and a hash with the prefix
C35_Witness ==
  /\ ret.op \in {"append", "write"}
  /\ Len(chain) > 1
  /\ QualifyingNonces(chain[Len(chain)]) = {1}
  /\ chain[Len(chain)].nonce = 1
  /\ StartsWith(chain[Len(chain)].hash, Target)

\* ------------------------------------------------- the search step by step
\* add_block and write with the loop of proof_of_work run one nonce at a
\* time. During a call ret holds the position of the thread: op is
\* "appending" or "writing", field the place in the code ("loop" at the
\* head of write's chunk loop, "mine" inside proof_of_work), pos the
\* chunks done, n the nonce to try next, before the timestamp of the
\* block being mined.
Calls == {"appending", "writing"}

\* range(MAX_NONCE) has no value left at nonce
RangeExhausted_one_late(nonce) == nonce >= MAX_NONCE + 1

RangeExhausted(nonce) == nonce >= MAX_NONCE

\* the chunk the thread is working on
ChunkInHand(r) ==
  IF r.op = "appending" THEN r.data ELSE split(r.data, CHUNK_SIZE)[r.pos + 1]

\* the block add_block has built and handed to proof_of_work
BlockInHand(c, r) ==
  Block(Len(c), r.before, r.f, Len(ChunkInHand(r)), Sha256(ChunkInHand(r)),
        Cid(ChunkInHand(r)), get_latest_block(c).hash, 0, <<>>)

\* a script calls add_block, which builds the block and enters the loop
CallAppend(f, chunk, ts) ==
  /\ ret.op \notin Calls
  /\ Len(chain) < MaxChain
  /\ ret' = [Ret("appending", f) EXCEPT !.data = chunk, !.field = "mine",
                                         !.before = ts]
  /\ UNCHANGED <<chain, ledger, store, files, faults, tampers, peer>>

\* write is called at offset 0 and has split the buffer
CallWrite(f, data) ==
  /\ ret.op \notin Calls
  /\ Len(chain) + Len(split(data, CHUNK_SIZE)) <= MaxChain
  /\ ret' = [Ret("writing", f) EXCEPT !.data = data, !.field = "loop"]
  /\ UNCHANGED <<chain, ledger, store, files, faults, tampers, peer>>

\* write's loop takes the next chunk: the upload returns an address, and
\* add_block builds the block and enters the loop of proof_of_work, or it
\* returns None and write raises
WriteUpload(up, ts) ==
  /\ ret.op = "writing"
  /\ ret.field = "loop"
  /\ ret.pos < Len(split(ret.data, CHUNK_SIZE))
  /\ IF up
     THEN /\ store' = upload_chunk(store, ChunkInHand(ret))
          /\ ret' = [ret EXCEPT !.field = "mine", !.n = 0, !.before = ts]
     ELSE /\ store' = store
          /\ ret' = [ret EXCEPT !.op = "write", !.field = "", !.ok = FALSE,
                                !.errno = except_Exception("EIO"),
                                !.cause = "StoreFailure", !.n = ret.pos,
                                !.pos = 0, !.before = <<>>]
  /\ UNCHANGED <<chain, ledger, files, faults, tampers, peer>>

\* write's loop has no chunk left: self.files is updated, len(data) returned
WriteReturn ==
  /\ ret.op = "writing"
  /\ ret.field = "loop"
  /\ ret.pos = Len(split(ret.data, CHUNK_SIZE))
  /\ files' = Put(files, ret.f, Len(ret.data))
  /\ ret' = [ret EXCEPT !.op = "write", !.field = "", !.n = ret.pos,
                        !.pos = 0, !.size = Len(ret.data), !.before = <<>>]
  /\ UNCHANGED <<chain, ledger, store, faults, tampers, peer>>

\* one round of proof_of_work's loop whose hash lacks the prefix
MineStep ==
  /\ ret.op \in Calls
  /\ ret.field = "mine"
  /\ ~RangeExhausted(ret.n)
  /\ ~Qualifies(BlockInHand(chain, ret), ret.n)
  /\ ret' = [ret EXCEPT !.n = ret.n + 1]
  /\ UNCHANGED <<chain, ledger, store, files, faults, tampers, peer>>

\* proof_of_work returns, at a hash with the prefix or after the loop, and
\* add_block stores the nonce and the hash, appends the block and saves
MineReturn(sv) ==
  /\ ret.op \in Calls
  /\ ret.field = "mine"
  /\ RangeExhausted(ret.n) \/ Qualifies(BlockInHand(chain, ret), ret.n)
  /\ LET b == BlockInHand(chain, ret)
         found == ~RangeExhausted(ret.n) /\ Qualifies(b, ret.n)
         m == [b EXCEPT !.nonce = IF found THEN ret.n ELSE 0]
         evals == IF found THEN ret.n + 1 ELSE ret.n
     IN  /\ chain' = Append(chain, [m EXCEPT !.hash = calculate_hash(m)])
         /\ ret' = IF ret.op = "appending"
                   THEN [Ret("append", ret.f) EXCEPT
                           !.data = ret.data, !.n = 1, !.fetches = evals,
                           !.saved = (sv = "saved")]
                   ELSE [ret EXCEPT !.field = "loop", !.pos = ret.pos + 1,
                                    !.n = 0, !.fetches = evals,
                                    !.saved = (sv = "saved"),
                                    !.before = <<>>]
  /\ ledger' = save_blockchain(ledger, chain', sv)
  /\ faults' = faults + (IF sv = "saved" THEN 0 ELSE 1)
  /\ faults' <= MaxFaults
  /\ UNCHANGED <<store, files, tampers, peer>>

NextMine ==
  \/ \E f \in Filenames, chunk \in ScriptChunks, ts \in Timestamps :
       CallAppend(f, chunk, ts)
  \/ \E f \in Filenames, data \in Datas : CallWrite(f, data)
  \/ \E up \in BOOLEAN, ts \in Timestamps : WriteUpload(up, ts)
  \/ WriteReturn
  \/ MineStep
  \/ \E sv \in SaveOutcomes : MineReturn(sv)

\* the thread inside a call keeps running: a round of the loop, the return
\* from it, the next chunk and the return of write are taken when they
\* can be; the save at the end of add_block returns whether it fails or
\* not, so the return is taken with the outcome "saved" if with no other
FairMine ==
  /\ WF_vars(MineStep)
  /\ WF_vars(MineReturn("saved"))
  /\ WF_vars(\E up \in BOOLEAN, ts \in Timestamps : WriteUpload(up, ts))
  /\ WF_vars(WriteReturn)

SpecMine == Init /\ [][NextMine]_vars /\ FairMine

\* C36: the loop of proof_of_work never tries a nonce beyond MAX_NONCE;
\* when it returns it has evaluated at most MAX_NONCE hashes, as many as
\* the search made in one piece, and the block appended is the one
\* add_block builds in one piece; and, the thread being scheduled and
\* the uploads returning, every call of add_block and every call of
\* write returns
C36_MiningBounded ==
  /\ [](ret.field = "mine" => ret.n <= MAX_NONCE)
  /\ [][(ret.field = "mine" /\ ret'.field # "mine") =>
          /\ ret'.fetches <= MAX_NONCE
          /\ ret'.fetches = mine_from(BlockInHand(chain, ret), 0).evals
          /\ chain' =
               Append(chain,
                      new_block(chain, ret.before, ret.f,
                                Len(ChunkInHand(ret)),
                                Sha256(ChunkInHand(ret)),
                                Cid(ChunkInHand(ret))))]_vars
  /\ (ret.op = "appending") ~> (ret.op = "append")
  /\ (ret.op = "writing") ~> (ret.op = "write")

\* a write has returned after a search that ran through all of
\* range(MAX_NONCE) without finding a nonce for its last block
C36_Witness ==
  /\ ret.op = "write"
  /\ ret.ok
  /\ ret.n >= 1
  /\ ret.fetches = MAX_NONCE
  /\ chain[Len(chain)].filename = ret.f
  /\ QualifyingNonces(chain[Len(chain)]) = {}

\* ------------------------------------------------------ consistent changes
\* Someone changes a field of a block and sets the block's hash to the hash
\* of the changed block, as calculate_hash, a public method, allows.
ResealBlock(pos, field, value) ==
  LET b == [chain[pos] EXCEPT ![field] = value]
  IN  /\ tampers < MaxTamper
      /\ pos \in 1..Len(chain)
      /\ field # "hash"
      /\ chain[pos][field] # value
      /\ chain' = [chain EXCEPT ![pos] = [b EXCEPT !.hash = calculate_hash(b)]]
      /\ tampers' = tampers + 1
      /\ ret' = [Ret("reseal", <<>>) EXCEPT !.pos = pos, !.field = field,
                                            !.before = chain]
      /\ UNCHANGED <<ledger, store, files, faults, peer>>

\* files are written, then a block is changed, with or without its hash
\* being set anew, and the chain is validated and checked
NextReseal ==
  \/ WriteNext /\ faults' = faults /\ tampers = 0
  \/ \E pos \in 1..MaxChain, field \in Fields :
       \E value \in TamperValues(field) : ResealBlock(pos, field, value)
  \/ \E pos \in 1..MaxChain, field \in Fields :
       \E value \in TamperValues(field) : TamperBlock(pos, field, value)
  \/ ValidateChain
  \/ \E f \in Filenames : DetectTampering(f)

SpecReseal == InitTamper /\ [][NextReseal]_vars

\* the positions of the blocks of f whose hash is not the hash of their
\* other fields
FlaggedPositions(c, f) ==
  {i \in 1..Len(c) : c[i].filename = f /\ c[i].hash # calculate_hash(c[i])}

\* the index fields of the blocks at the positions P, in chain order
IndicesAt(c, P) ==
  LET at(k) == CHOOSE i \in P : Cardinality({j \in P : j < i}) = k - 1
  IN  [k \in 1..Cardinality(P) |-> c[at(k)].index]

\* detect_tampering returns the indices of the blocks of the file whose
\* stored hash is not the recomputed one, whatever the links and prefixes
DetectsExactly ==
  \A f \in Filenames \cup {GENESIS} :
    detect_tampering(chain, f) = IndicesAt(chain, FlaggedPositions(chain, f))

\* the block changed by a reseal step is flagged for no file
ResealedNotFlagged ==
  /\ HashMatches(chain', ret'.pos)
  /\ \A f \in Filenames \cup {GENESIS} :
       /\ ret'.pos \notin FlaggedPositions(chain', f)
       /\ Len(detect_tampering(chain', f))
            <= Cardinality({i \in 1..Len(chain) : ~HashMatches(chain, i)})

FullRead(f) == read(chain, store, f, MaxChain * CHUNK_SIZE, 0, 0)

\* C38: for every file that attribute lookup finds, the size it reports
\* is the sum of file_size over the blocks of that filename, and the
\* number of bytes a read of the whole file returns, in every state
C38_SizeIsSumOfChunks ==
  \A f \in Filenames :
    LET attrs == getattr(files, chain, Path(f))
    IN  attrs.ok =>
          /\ attrs.st_size = total_size(get_file_blocks(chain, f))
          /\ FullRead(f).ok => attrs.st_size = Len(FullRead(f).out)

\* ------------------------------------------------- the checker as a process
\* python integrity_checker.py <command> is run while the filesystem is
\* mounted.  Here the running process is the checker, chain its chain, and
\* the second process, peer, is the mounted filesystem, whose add_block
\* appends, opens the ledger file and dumps into it in separate steps.
Commands ==
  {"verify-blockchain", "verify-file", "list-files", "info",
   "print-blockchain"}

\* what main() of the checker hands to sys.exit: success of the command
RunCommand(cmd, c, st, f) ==
  CASE cmd = "verify-blockchain" -> verify_blockchain(c)
    [] cmd = "verify-file" -> verify_file(c, st, f, 0)
    [] OTHER -> TRUE

\* one run of the checker: the import of blockchain.py builds the
\* Blockchain object, which loads the ledger file and, finding no chain,
\* creates a genesis block and saves it; then the command runs on it
CheckerRun(cmd, f, ts) ==
  LET st == init_blockchain(ledger, FALSE, ts, "saved")
  IN  /\ chain' = st.chain
      /\ ledger' = st.ledger
      /\ ret' = [Ret(cmd, f) EXCEPT
                   !.ok = RunCommand(cmd, st.chain, store, f),
                   !.n = Len(ledger.blocks),
                   !.cause = IF LoadRaises(ledger, FALSE)
                             THEN "LoadFailure" ELSE ""]
      /\ UNCHANGED <<store, files, faults, tampers, peer>>

NextChecker ==
  \/ \E ts \in Timestamps : PeerImport(ts)
  \/ PeerOpen
  \/ PeerDump
  \/ PeerExit
  \/ \E f \in Filenames, chunk \in ScriptChunks, ts \in Timestamps :
       PeerAppend(f, chunk, ts)
  \/ \E cmd \in Commands, f \in Filenames, ts \in Timestamps :
       CheckerRun(cmd, f, ts)

SpecChecker == InitTamper /\ [][NextChecker]_vars

\* C39: a run of a command of the checker leaves the ledger file as it
\* found it, also when it starts while the filesystem process has opened
\* the file for writing and not yet written the chain into it
C39_CheckerLeavesLedger ==
  [][ret'.op \in Commands => ledger' = ledger]_vars

\* C40: the chain in memory is never empty, whatever became of the loads
\* and the saves; add_block therefore has a latest block, whose hash the
\* new block carries as previous_hash, and verify_blockchain never takes
\* its branch for an empty chain and returns what validate_chain returns
C40_ChainNeverEmpty ==
  /\ [](/\ chain # <<>>
        /\ get_latest_block(chain) = chain[Len(chain)]
        /\ verify_blockchain(chain) = validate_chain(chain))
  /\ [][(ret'.op = "append" =>
            /\ chain # <<>>
            /\ chain'[Len(chain')].previous_hash
                 = get_latest_block(chain).hash)
        /\ (ret'.op = "verify-blockchain" =>
              ret'.ok = validate_chain(chain))]_vars

\* a start has found an unreadable ledger file and could not save the
\* genesis block it created: the chain in memory holds that block
C40_Witness ==
  /\ ret.op = "restart"
  /\ ret.cause = "LoadFailure"
  /\ ~ret.saved
  /\ Len(chain) = 1
  /\ ledger.kind # "json"
  /\ verify_blockchain(chain)

====
